---- MODULE Spec2Model ----
(***************************************************************************)
(* Model of the two search trees of include/avl.hpp and include/bst.hpp.   *)
(*                                                                         *)
(* The nodes live in a heap: a function from the addresses of the          *)
(* allocated TreeNode objects to their fields.  `new` extends the heap,    *)
(* `delete` runs ~TreeNode (which deletes the children it still points to) *)
(* and shrinks it.  A `TreeNode*&` parameter is modelled by returning the  *)
(* new value of the slot, which the caller stores back.                    *)
(***************************************************************************)
EXTENDS Integers, Sequences, FiniteSets, TLC

\* ---------------------------------------------------------------- bounds
\* Number of node addresses the allocator can hand out.
MaxNodes == 4
\* Number of distinct values of T the callers use.
NumValues == 4

\* The values of T used as arguments (T = int), the scenario's values first.
ValueSeq == <<30, 20, 10, 25, 15, 35, 5, 40>>
Values == {ValueSeq[i] : i \in 1..NumValues}

NodeIds == 1..MaxNodes
\* nullptr
NULL == 0

VARIABLES
    variant,   \* which class the program instantiated: "AVL" or "BST"
    heap,      \* address -> TreeNode fields, for every allocated node
    root,      \* the tree's root pointer
    members,   \* history: the values inserted and not removed since
    last,      \* history: the last public call, its result and the tree before it
    scen       \* history: how many calls of the scenario 30,20,10,25,-30 the
               \*          whole call sequence so far consists of (-1: it left it)

vars == <<variant, heap, root, members, last, scen>>

\* ----------------------------------------------------------- small helpers
Max2(a, b) == IF a >= b THEN a ELSE b

Abs(x) == IF x < 0 THEN -x ELSE x

\* operator new: the lowest free address
NewId(h) == CHOOSE i \in NodeIds \ DOMAIN h : \A j \in NodeIds \ DOMAIN h : i <= j

\* Variant of Release in which the delete is missing.
Release_Leak(h, s) == h

\* h with the nodes of set s released
Release(h, s) == [i \in DOMAIN h \ s |-> h[i]]

\* h with a fresh node nd at address id
Extend(h, id, nd) == [i \in DOMAIN h \cup {id} |-> IF i = id THEN nd ELSE h[i]]

\* ~TreeNode run by `delete n`: the set of nodes destroyed, n and, through
\* the pointers n still holds, its children, recursively.
RECURSIVE Destroy(_, _)
Destroy(h, n) ==
    IF n = NULL \/ n \notin DOMAIN h THEN {}
    ELSE {n} \cup Destroy(h, h[n].left) \cup Destroy(h, h[n].right)

\* Variant of max that descends to the left, as min does.
RECURSIVE max_GoesLeft(_, _)
max_GoesLeft(h, n) == IF h[n].left # NULL THEN max_GoesLeft(h, h[n].left) ELSE n

\* TreeNode::max(): the rightmost node of the subtree of n (n non-null)
RECURSIVE max(_, _)
max(h, n) == IF h[n].right # NULL THEN max(h, h[n].right) ELSE n

\* TreeNode::min(): the leftmost node of the subtree of n (n non-null)
RECURSIVE min(_, _)
min(h, n) == IF h[n].left # NULL THEN min(h, h[n].left) ELSE n

\* ------------------------------------------------------------------- AVL
\* AVL::TreeNode::TreeNode(value)
AVL_TreeNode(value) == [data |-> value, left |-> NULL, right |-> NULL, height |-> 0]

\* AVL::height(node): the cached height, -1 for nullptr
height(h, node) == IF node = NULL THEN -1 ELSE h[node].height

\* Variant of UpdateHeight that looks at the left subtree only.
UpdateHeight_LeftOnly(h, node) ==
    [h EXCEPT ![node].height = 1 + height(h, h[node].left)]

\* the statement node->height = 1 + std::max(height(left), height(right))
UpdateHeight(h, node) ==
    [h EXCEPT ![node].height = 1 + Max2(height(h, h[node].left), height(h, h[node].right))]

\* rotateRight(N): L = N->left becomes the subtree's root, N's left child
\* becomes L's former right child, L's right child becomes N; the heights
\* of N, then L, are recomputed.  Returns the heap and the slot's new value.
rotateRight(h, node) ==
    LET L  == h[node].left
        h1 == [h EXCEPT ![node].left = h[L].right]
        h2 == [h1 EXCEPT ![L].right = node]
        h3 == UpdateHeight(h2, node)
        h4 == UpdateHeight(h3, L)
    IN  [h |-> h4, node |-> L]

\* rotateLeft(N): the mirror image of rotateRight
rotateLeft(h, node) ==
    LET R  == h[node].right
        h1 == [h EXCEPT ![node].right = h[R].left]
        h2 == [h1 EXCEPT ![R].left = node]
        h3 == UpdateHeight(h2, node)
        h4 == UpdateHeight(h3, R)
    IN  [h |-> h4, node |-> R]

\* What one call of balance saw and did: the balance factor it computed, the
\* rotation it chose, whether a pointer it had to dereference for that
\* rotation was null, and the balance factor of the node left in the slot.
Seen(bf, rot, null, h, node) ==
    [bf |-> bf, rot |-> rot, null |-> null,
     after |-> height(h, h[node].left) - height(h, h[node].right)]

\* Variant of balance without the double rotations: a single rotation always.
balance_SingleOnly(h, node) ==
    IF node = NULL THEN [h |-> h, node |-> node, obs |-> <<>>]
    ELSE
      LET h0 == UpdateHeight(h, node)
          bf == height(h0, h0[node].left) - height(h0, h0[node].right)
      IN  IF bf > 1 THEN
              LET b == rotateRight(h0, node)
              IN  [h |-> b.h, node |-> b.node,
                   obs |-> <<Seen(bf, "single", FALSE, b.h, b.node)>>]
          ELSE IF bf < -1 THEN
              LET b == rotateLeft(h0, node)
              IN  [h |-> b.h, node |-> b.node,
                   obs |-> <<Seen(bf, "single", FALSE, b.h, b.node)>>]
          ELSE [h |-> h0, node |-> node, obs |-> <<Seen(bf, "none", FALSE, h0, node)>>]

\* AVL::balance(node).  node->left->left, node->left->right and the rotations
\* read through node->left (bf > 1) or node->right (bf < -1), and the first
\* rotation of a double rotation reads through the inner grandchild; where
\* such a pointer is null the read is undefined and the call is recorded as
\* having dereferenced null, the tree left as it was.
balance(h, node) ==
    IF node = NULL THEN [h |-> h, node |-> node, obs |-> <<>>]
    ELSE
      LET h0 == UpdateHeight(h, node)
          bf == height(h0, h0[node].left) - height(h0, h0[node].right)
          Died(rot) == [h |-> h0, node |-> node, obs |-> <<Seen(bf, rot, TRUE, h0, node)>>]
          Done(rot, b) == [h |-> b.h, node |-> b.node,
                           obs |-> <<Seen(bf, rot, FALSE, b.h, b.node)>>]
      IN  IF bf > 1 THEN
              LET l == h0[node].left IN
              IF l = NULL THEN Died("single")
              ELSE IF height(h0, h0[l].left) >= height(h0, h0[l].right)
              THEN Done("single", rotateRight(h0, node))
              ELSE IF h0[l].right = NULL THEN Died("double")
              ELSE LET r1 == rotateLeft(h0, l)
                       h1 == [r1.h EXCEPT ![node].left = r1.node]
                   IN  Done("double", rotateRight(h1, node))
          ELSE IF bf < -1 THEN
              LET r == h0[node].right IN
              IF r = NULL THEN Died("single")
              ELSE IF height(h0, h0[r].right) >= height(h0, h0[r].left)
              THEN Done("single", rotateLeft(h0, node))
              ELSE IF h0[r].left = NULL THEN Died("double")
              ELSE LET r1 == rotateRight(h0, r)
                       h1 == [r1.h EXCEPT ![node].right = r1.node]
                   IN  Done("double", rotateLeft(h1, node))
          ELSE [h |-> h0, node |-> node, obs |-> <<Seen(bf, "none", FALSE, h0, node)>>]

\* Variant of AVL_insertUnwind that neither refreshes the height nor balances.
AVL_insertUnwind_Skip(h, node, inserted) ==
    [h |-> h, node |-> node, ret |-> inserted, bal |-> <<>>]

\* the tail of AVL::insert(node, value): if (inserted) { height; balance };
\* bal is what the call of balance saw
AVL_insertUnwind(h, node, inserted) ==
    IF inserted
    THEN LET b == balance(UpdateHeight(h, node), node)
         IN  [h |-> b.h, node |-> b.node, ret |-> TRUE, bal |-> b.obs]
    ELSE [h |-> h, node |-> node, ret |-> FALSE, bal |-> <<>>]

\* Variant of AVL_insert without the equality case: an equal value goes right.
RECURSIVE AVL_insert_Dup(_, _, _)
AVL_insert_Dup(h, node, value) ==
    IF node = NULL THEN
        LET id == NewId(h)
        IN  [h |-> Extend(h, id, AVL_TreeNode(value)), node |-> id, ret |-> TRUE,
             bal |-> <<>>]
    ELSE IF value < h[node].data THEN
        LET r == AVL_insert_Dup(h, h[node].left, value)
            u == AVL_insertUnwind([r.h EXCEPT ![node].left = r.node], node, r.ret)
        IN  [u EXCEPT !.bal = r.bal \o u.bal]
    ELSE
        LET r == AVL_insert_Dup(h, h[node].right, value)
            u == AVL_insertUnwind([r.h EXCEPT ![node].right = r.node], node, r.ret)
        IN  [u EXCEPT !.bal = r.bal \o u.bal]

\* AVL::insert(TreeNode*& node, value)
RECURSIVE AVL_insert(_, _, _)
AVL_insert(h, node, value) ==
    IF node = NULL THEN
        LET id == NewId(h)
        IN  [h |-> Extend(h, id, AVL_TreeNode(value)), node |-> id, ret |-> TRUE,
             bal |-> <<>>]
    ELSE IF value < h[node].data THEN
        LET r == AVL_insert(h, h[node].left, value)
            u == AVL_insertUnwind([r.h EXCEPT ![node].left = r.node], node, r.ret)
        IN  [u EXCEPT !.bal = r.bal \o u.bal]
    ELSE IF h[node].data < value THEN
        LET r == AVL_insert(h, h[node].right, value)
            u == AVL_insertUnwind([r.h EXCEPT ![node].right = r.node], node, r.ret)
        IN  [u EXCEPT !.bal = r.bal \o u.bal]
    ELSE [h |-> h, node |-> node, ret |-> FALSE, bal |-> <<>>]

\* Variant of AVL_contain whose second branch also descends to the left.
RECURSIVE AVL_contain_LeftTwice(_, _, _)
AVL_contain_LeftTwice(h, node, value) ==
    IF node = NULL THEN FALSE
    ELSE IF value < h[node].data THEN AVL_contain_LeftTwice(h, h[node].left, value)
    ELSE IF h[node].data < value THEN AVL_contain_LeftTwice(h, h[node].left, value)
    ELSE TRUE

\* AVL::contain(node, value)
RECURSIVE AVL_contain(_, _, _)
AVL_contain(h, node, value) ==
    IF node = NULL THEN FALSE
    ELSE IF value < h[node].data THEN AVL_contain(h, h[node].left, value)
    ELSE IF h[node].data < value THEN AVL_contain(h, h[node].right, value)
    ELSE TRUE

\* Variant of AVL_removeUnwind that refreshes the height but does not balance.
AVL_removeUnwind_NoBalance(r) ==
    IF r.ret /\ r.node # NULL
    THEN [r EXCEPT !.h = UpdateHeight(r.h, r.node)]
    ELSE r

\* Variant of AVL_removeUnwind that returns true whatever `removed` holds.
AVL_removeUnwind_AlwaysTrue(r) ==
    IF r.node # NULL
    THEN LET b == balance(UpdateHeight(r.h, r.node), r.node)
         IN  [r EXCEPT !.h = b.h, !.node = b.node, !.ret = TRUE, !.bal = r.bal \o b.obs]
    ELSE [r EXCEPT !.ret = TRUE]

\* the tail of AVL::remove(node, value): if (removed) { if (node) { height;
\* balance } return true } return false.  r carries the call's results so far.
AVL_removeUnwind(r) ==
    IF r.ret /\ r.node # NULL
    THEN LET b == balance(UpdateHeight(r.h, r.node), r.node)
         IN  [r EXCEPT !.h = b.h, !.node = b.node, !.bal = r.bal \o b.obs]
    ELSE r

\* AVL::remove(TreeNode*& node, value).  Besides the heap, the slot and the
\* returned bool, the result records which removal cases the call and its
\* nested calls took (cases) and which nodes their deletes destroyed (freed).
\* In the two-children case `value` of the nested call is a reference to
\* maxLeft->data; it is read only while maxLeft is allocated and unchanged,
\* so it is passed here as the value it holds.
RECURSIVE AVL_remove(_, _, _)
AVL_remove(h, node, value) ==
    IF node = NULL THEN
        [h |-> h, node |-> node, ret |-> FALSE, cases |-> <<>>, freed |-> {},
         bal |-> <<>>]
    ELSE IF value < h[node].data THEN
        LET r == AVL_remove(h, h[node].left, value)
        IN  AVL_removeUnwind([r EXCEPT !.h = [r.h EXCEPT ![node].left = r.node],
                                       !.node = node])
    ELSE IF h[node].data < value THEN
        LET r == AVL_remove(h, h[node].right, value)
        IN  AVL_removeUnwind([r EXCEPT !.h = [r.h EXCEPT ![node].right = r.node],
                                       !.node = node])
    ELSE IF h[node].left = NULL /\ h[node].right = NULL THEN
        LET d == Destroy(h, node)
        IN  AVL_removeUnwind([h |-> Release(h, d), node |-> NULL, ret |-> TRUE,
                              cases |-> <<"leaf">>, freed |-> d,
                              bal |-> <<>>])
    ELSE IF h[node].left = NULL THEN
        LET temp == node
            h1   == [h EXCEPT ![temp].right = NULL]
            d    == Destroy(h1, temp)
        IN  AVL_removeUnwind([h |-> Release(h1, d), node |-> h[node].right, ret |-> TRUE,
                              cases |-> <<"right_only">>, freed |-> d,
                              bal |-> <<>>])
    ELSE IF h[node].right = NULL THEN
        LET temp == node
            h1   == [h EXCEPT ![temp].left = NULL]
            d    == Destroy(h1, temp)
        IN  AVL_removeUnwind([h |-> Release(h1, d), node |-> h[node].left, ret |-> TRUE,
                              cases |-> <<"left_only">>, freed |-> d,
                              bal |-> <<>>])
    ELSE
        LET maxLeft == max(h, h[node].left)
            h1      == [h EXCEPT ![node].data = h[maxLeft].data]
            r       == AVL_remove(h1, h1[node].left, h1[maxLeft].data)
        IN  AVL_removeUnwind([r EXCEPT !.h = [r.h EXCEPT ![node].left = r.node],
                                       !.node = node,
                                       !.cases = <<"two_children">> \o r.cases])

\* AVL::in_order(node, result): the values appended to result
RECURSIVE AVL_in_order(_, _)
AVL_in_order(h, node) ==
    IF node = NULL THEN <<>>
    ELSE AVL_in_order(h, h[node].left) \o <<h[node].data>> \o AVL_in_order(h, h[node].right)

\* AVL::pre_order(node, result)
RECURSIVE AVL_pre_order(_, _)
AVL_pre_order(h, node) ==
    IF node = NULL THEN <<>>
    ELSE <<h[node].data>> \o AVL_pre_order(h, h[node].left) \o AVL_pre_order(h, h[node].right)

\* AVL::post_order(node, result)
RECURSIVE AVL_post_order(_, _)
AVL_post_order(h, node) ==
    IF node = NULL THEN <<>>
    ELSE AVL_post_order(h, h[node].left) \o AVL_post_order(h, h[node].right) \o <<h[node].data>>

\* AVL::is_balanced(node): the pair (balanced, height), heights recomputed
\* from the structure
RECURSIVE is_balanced(_, _)
is_balanced(h, node) ==
    IF node = NULL THEN <<TRUE, -1>>
    ELSE LET l == is_balanced(h, h[node].left)
             r == is_balanced(h, h[node].right)
         IN  << l[1] /\ r[1] /\ Abs(l[2] - r[2]) <= 1, 1 + Max2(l[2], r[2]) >>

\* ------------------------------------------------------------------- BST
\* BST::TreeNode::TreeNode(value)
BST_TreeNode(value) == [data |-> value, left |-> NULL, right |-> NULL]

\* Variant of BST_insert whose second branch also inserts into the left subtree.
RECURSIVE BST_insert_LeftTwice(_, _, _)
BST_insert_LeftTwice(h, node, value) ==
    IF node = NULL THEN
        LET id == NewId(h)
        IN  [h |-> Extend(h, id, BST_TreeNode(value)), node |-> id, ret |-> TRUE]
    ELSE IF value < h[node].data THEN
        LET r == BST_insert_LeftTwice(h, h[node].left, value)
        IN  [h |-> [r.h EXCEPT ![node].left = r.node], node |-> node, ret |-> r.ret]
    ELSE IF h[node].data < value THEN
        LET r == BST_insert_LeftTwice(h, h[node].left, value)
        IN  [h |-> [r.h EXCEPT ![node].left = r.node], node |-> node, ret |-> r.ret]
    ELSE [h |-> h, node |-> node, ret |-> FALSE]

\* BST::insert(TreeNode*& node, value)
RECURSIVE BST_insert(_, _, _)
BST_insert(h, node, value) ==
    IF node = NULL THEN
        LET id == NewId(h)
        IN  [h |-> Extend(h, id, BST_TreeNode(value)), node |-> id, ret |-> TRUE]
    ELSE IF value < h[node].data THEN
        LET r == BST_insert(h, h[node].left, value)
        IN  [h |-> [r.h EXCEPT ![node].left = r.node], node |-> node, ret |-> r.ret]
    ELSE IF h[node].data < value THEN
        LET r == BST_insert(h, h[node].right, value)
        IN  [h |-> [r.h EXCEPT ![node].right = r.node], node |-> node, ret |-> r.ret]
    ELSE [h |-> h, node |-> node, ret |-> FALSE]

\* BST::contain(node, value)
RECURSIVE BST_contain(_, _, _)
BST_contain(h, node, value) ==
    IF node = NULL THEN FALSE
    ELSE IF value < h[node].data THEN BST_contain(h, h[node].left, value)
    ELSE IF h[node].data < value THEN BST_contain(h, h[node].right, value)
    ELSE TRUE

\* Variant of BST_remove whose one-child cases delete temp without clearing
\* the child pointer temp still holds.
RECURSIVE BST_remove_NoClear(_, _, _)
BST_remove_NoClear(h, node, value) ==
    IF node = NULL THEN
        [h |-> h, node |-> node, ret |-> FALSE, cases |-> <<>>, freed |-> {}]
    ELSE IF value < h[node].data THEN
        LET r == BST_remove_NoClear(h, h[node].left, value)
        IN  [r EXCEPT !.h = [r.h EXCEPT ![node].left = r.node], !.node = node]
    ELSE IF h[node].data < value THEN
        LET r == BST_remove_NoClear(h, h[node].right, value)
        IN  [r EXCEPT !.h = [r.h EXCEPT ![node].right = r.node], !.node = node]
    ELSE IF h[node].left = NULL /\ h[node].right = NULL THEN
        LET d == Destroy(h, node)
        IN  [h |-> Release(h, d), node |-> NULL, ret |-> TRUE,
             cases |-> <<"leaf">>, freed |-> d]
    ELSE IF h[node].left = NULL THEN
        LET d == Destroy(h, node)
        IN  [h |-> Release(h, d), node |-> h[node].right, ret |-> TRUE,
             cases |-> <<"right_only">>, freed |-> d]
    ELSE IF h[node].right = NULL THEN
        LET d == Destroy(h, node)
        IN  [h |-> Release(h, d), node |-> h[node].left, ret |-> TRUE,
             cases |-> <<"left_only">>, freed |-> d]
    ELSE
        LET maxLeft == max(h, h[node].left)
            h1      == [h EXCEPT ![node].data = h[maxLeft].data]
            r       == BST_remove_NoClear(h1, h1[node].left, h1[maxLeft].data)
        IN  [r EXCEPT !.h = [r.h EXCEPT ![node].left = r.node],
                      !.node = node,
                      !.cases = <<"two_children">> \o r.cases]

\* BST::remove(TreeNode*& node, value), with the same record of cases and
\* destroyed nodes as AVL_remove
RECURSIVE BST_remove(_, _, _)
BST_remove(h, node, value) ==
    IF node = NULL THEN
        [h |-> h, node |-> node, ret |-> FALSE, cases |-> <<>>, freed |-> {}]
    ELSE IF value < h[node].data THEN
        LET r == BST_remove(h, h[node].left, value)
        IN  [r EXCEPT !.h = [r.h EXCEPT ![node].left = r.node], !.node = node]
    ELSE IF h[node].data < value THEN
        LET r == BST_remove(h, h[node].right, value)
        IN  [r EXCEPT !.h = [r.h EXCEPT ![node].right = r.node], !.node = node]
    ELSE IF h[node].left = NULL /\ h[node].right = NULL THEN
        LET d == Destroy(h, node)
        IN  [h |-> Release(h, d), node |-> NULL, ret |-> TRUE,
             cases |-> <<"leaf">>, freed |-> d]
    ELSE IF h[node].left = NULL THEN
        LET temp == node
            h1   == [h EXCEPT ![temp].right = NULL]
            d    == Destroy(h1, temp)
        IN  [h |-> Release(h1, d), node |-> h[node].right, ret |-> TRUE,
             cases |-> <<"right_only">>, freed |-> d]
    ELSE IF h[node].right = NULL THEN
        LET temp == node
            h1   == [h EXCEPT ![temp].left = NULL]
            d    == Destroy(h1, temp)
        IN  [h |-> Release(h1, d), node |-> h[node].left, ret |-> TRUE,
             cases |-> <<"left_only">>, freed |-> d]
    ELSE
        LET maxLeft == max(h, h[node].left)
            h1      == [h EXCEPT ![node].data = h[maxLeft].data]
            r       == BST_remove(h1, h1[node].left, h1[maxLeft].data)
        IN  [r EXCEPT !.h = [r.h EXCEPT ![node].left = r.node],
                      !.node = node,
                      !.cases = <<"two_children">> \o r.cases]

\* BST::in_order(node, result), entered with a non-null node
RECURSIVE BST_in_order(_, _)
BST_in_order(h, node) ==
    (IF h[node].left # NULL THEN BST_in_order(h, h[node].left) ELSE <<>>)
    \o <<h[node].data>>
    \o (IF h[node].right # NULL THEN BST_in_order(h, h[node].right) ELSE <<>>)

\* BST::pre_order(node, result), entered with a non-null node
RECURSIVE BST_pre_order(_, _)
BST_pre_order(h, node) ==
    <<h[node].data>>
    \o (IF h[node].left # NULL THEN BST_pre_order(h, h[node].left) ELSE <<>>)
    \o (IF h[node].right # NULL THEN BST_pre_order(h, h[node].right) ELSE <<>>)

\* BST::post_order(node, result), entered with a non-null node
RECURSIVE BST_post_order(_, _)
BST_post_order(h, node) ==
    (IF h[node].left # NULL THEN BST_post_order(h, h[node].left) ELSE <<>>)
    \o (IF h[node].right # NULL THEN BST_post_order(h, h[node].right) ELSE <<>>)
    \o <<h[node].data>>

\* ------------------------------------------------------- history variables
\* The scenario of the specification: insert 30, 20, 10, 25, then remove 30.
Scenario == << <<"insert", 30>>, <<"insert", 20>>, <<"insert", 10>>,
               <<"insert", 25>>, <<"remove", 30>> >>

ScenStep(s, op, arg) ==
    IF s >= 0 /\ s < Len(Scenario) /\ Scenario[s + 1] = <<op, arg>> THEN s + 1 ELSE -1

Pre == [heap |-> heap, root |-> root, members |-> members]

\* The record of a public call.  err: the call dereferenced a null pointer;
\* halted: the process died in the call.
Call(op, arg, ret, out, cases, freed, err, halted) ==
    [op |-> op, arg |-> arg, ret |-> ret, out |-> out, cases |-> cases,
     freed |-> freed, err |-> err, halted |-> halted, bal |-> <<>>, pre |-> Pre]

\* A call of balance in the sequence dereferenced a null pointer
NullRead(bal) == \E i \in 1..Len(bal) : bal[i].null

\* The record of an AVL insert or remove: what its calls of balance saw, in
\* the order of the unwind; a null read in balance ends the process.
AVLCall(op, arg, r, cases, freed) ==
    [Call(op, arg, r.ret, <<>>, cases, freed, NullRead(r.bal), NullRead(r.bal))
        EXCEPT !.bal = r.bal]

\* What a read through a null TreeNode* may leave in the result vector
Garbage == {<<>>} \cup {<<v>> : v \in Values}

\* ---------------------------------------------------------------- actions
\* AVL::AVL() / BST::BST(): root{nullptr}
Init ==
    /\ variant \in {"AVL", "BST"}
    /\ heap = << >>
    /\ root = NULL
    /\ members = {}
    /\ last = [op |-> "none", arg |-> 0, ret |-> FALSE, out |-> <<>>, cases |-> <<>>,
               freed |-> {}, err |-> FALSE, halted |-> FALSE, bal |-> <<>>,
               pre |-> [heap |-> << >>, root |-> NULL, members |-> {}]]
    /\ scen = 0

Running(v) == variant = v /\ ~last.halted

\* new TreeNode can be served
CanAllocate == NodeIds \ DOMAIN heap # {}

\* bool AVL::insert(const T& value)
AVLInsert(value) ==
    /\ Running("AVL")
    /\ CanAllocate \/ AVL_contain(heap, root, value)
    /\ LET r == AVL_insert(heap, root, value)
       IN  /\ heap' = r.h
           /\ root' = r.node
           /\ last' = AVLCall("insert", value, r, <<>>, {})
    /\ members' = members \cup {value}
    /\ scen' = ScenStep(scen, "insert", value)
    /\ UNCHANGED variant

\* bool AVL::remove(const T& value)
AVLRemove(value) ==
    /\ Running("AVL")
    /\ LET r == AVL_remove(heap, root, value)
       IN  /\ heap' = r.h
           /\ root' = r.node
           /\ last' = AVLCall("remove", value, r, r.cases, r.freed)
    /\ members' = members \ {value}
    /\ scen' = ScenStep(scen, "remove", value)
    /\ UNCHANGED variant

\* bool AVL::contain(const T& value) const
AVLContain(value) ==
    /\ Running("AVL")
    /\ last' = Call("contain", value, AVL_contain(heap, root, value), <<>>, <<>>, {},
                    FALSE, FALSE)
    /\ scen' = ScenStep(scen, "contain", value)
    /\ UNCHANGED <<variant, heap, root, members>>

\* A const call of the AVL that returns a vector
AVLQuery(op, out) ==
    /\ Running("AVL")
    /\ last' = Call(op, 0, FALSE, out, <<>>, {}, FALSE, FALSE)
    /\ scen' = ScenStep(scen, op, 0)
    /\ UNCHANGED <<variant, heap, root, members>>

\* std::vector<T> AVL::in_order() const
AVLInOrder == AVLQuery("in_order", AVL_in_order(heap, root))

\* std::vector<T> AVL::pre_order() const
AVLPreOrder == AVLQuery("pre_order", AVL_pre_order(heap, root))

\* std::vector<T> AVL::post_order() const
AVLPostOrder == AVLQuery("post_order", AVL_post_order(heap, root))

\* bool AVL::is_balanced() const
AVLIsBalanced ==
    /\ Running("AVL")
    /\ last' = Call("is_balanced", 0, is_balanced(heap, root)[1], <<>>, <<>>, {},
                    FALSE, FALSE)
    /\ scen' = ScenStep(scen, "is_balanced", 0)
    /\ UNCHANGED <<variant, heap, root, members>>

\* bool BST::insert(const T& value)
BSTInsert(value) ==
    /\ Running("BST")
    /\ CanAllocate \/ BST_contain(heap, root, value)
    /\ LET r == BST_insert(heap, root, value)
       IN  /\ heap' = r.h
           /\ root' = r.node
           /\ last' = Call("insert", value, r.ret, <<>>, <<>>, {}, FALSE, FALSE)
    /\ members' = members \cup {value}
    /\ scen' = ScenStep(scen, "insert", value)
    /\ UNCHANGED variant

\* bool BST::remove(const T& value)
BSTRemove(value) ==
    /\ Running("BST")
    /\ LET r == BST_remove(heap, root, value)
       IN  /\ heap' = r.h
           /\ root' = r.node
           /\ last' = Call("remove", value, r.ret, <<>>, r.cases, r.freed, FALSE, FALSE)
    /\ members' = members \ {value}
    /\ scen' = ScenStep(scen, "remove", value)
    /\ UNCHANGED variant

\* bool BST::contain(const T& value) const
BSTContain(value) ==
    /\ Running("BST")
    /\ last' = Call("contain", value, BST_contain(heap, root, value), <<>>, <<>>, {},
                    FALSE, FALSE)
    /\ scen' = ScenStep(scen, "contain", value)
    /\ UNCHANGED <<variant, heap, root, members>>

\* A traversal of the BST.  The public function passes root to the private
\* one unchecked, and that one reads node->data, node->left and node->right:
\* with root == nullptr the read is undefined, and the call either kills the
\* process or returns whatever the read produced.
BSTQuery(op, out) ==
    /\ Running("BST")
    /\ \/ /\ root # NULL
          /\ last' = Call(op, 0, FALSE, out, <<>>, {}, FALSE, FALSE)
       \/ /\ root = NULL
          /\ \E halted \in BOOLEAN, g \in Garbage :
                last' = Call(op, 0, FALSE, IF halted THEN <<>> ELSE g, <<>>, {},
                             TRUE, halted)
    /\ scen' = ScenStep(scen, op, 0)
    /\ UNCHANGED <<variant, heap, root, members>>

\* std::vector<T> BST::in_order() const
BSTInOrder == BSTQuery("in_order", BST_in_order(heap, root))

\* std::vector<T> BST::pre_order() const
BSTPreOrder == BSTQuery("pre_order", BST_pre_order(heap, root))

\* std::vector<T> BST::post_order() const
BSTPostOrder == BSTQuery("post_order", BST_post_order(heap, root))

Next ==
    \/ \E value \in Values : AVLInsert(value)
    \/ \E value \in Values : AVLRemove(value)
    \/ \E value \in Values : AVLContain(value)
    \/ AVLInOrder
    \/ AVLPreOrder
    \/ AVLPostOrder
    \/ AVLIsBalanced
    \/ \E value \in Values : BSTInsert(value)
    \/ \E value \in Values : BSTRemove(value)
    \/ \E value \in Values : BSTContain(value)
    \/ BSTInOrder
    \/ BSTPreOrder
    \/ BSTPostOrder

Spec == Init /\ [][Next]_vars

\* ------------------------------------------------- vocabulary of the claims
\* The nodes of the subtree of n
RECURSIVE NodesOf(_, _)
NodesOf(h, n) ==
    IF n = NULL THEN {} ELSE {n} \cup NodesOf(h, h[n].left) \cup NodesOf(h, h[n].right)

\* The values stored in the subtree of n
ValuesOf(h, n) == {h[i].data : i \in NodesOf(h, n)}

\* The height of the subtree of n, from the structure: -1 when empty
RECURSIVE TrueHeight(_, _)
TrueHeight(h, n) ==
    IF n = NULL THEN -1
    ELSE 1 + Max2(TrueHeight(h, h[n].left), TrueHeight(h, h[n].right))

\* The search-tree property at every node of the subtree of n
SearchTree(h, n) ==
    \A i \in NodesOf(h, n) :
        /\ \A x \in ValuesOf(h, h[i].left) : x < h[i].data
        /\ \A y \in ValuesOf(h, h[i].right) : h[i].data < y

\* The balance property at every node of the subtree of n
Balanced(h, n) ==
    \A i \in NodesOf(h, n) :
        Abs(TrueHeight(h, h[i].left) - TrueHeight(h, h[i].right)) <= 1

StrictlyAscending(q) == \A i \in 1..(Len(q) - 1) : q[i] < q[i + 1]

\* contain(value) of the instantiated class
Contain(h, n, value) ==
    IF variant = "AVL" THEN AVL_contain(h, n, value) ELSE BST_contain(h, n, value)

\* in_order() of the instantiated class on a non-empty tree
InOrder(h, n) == IF variant = "AVL" THEN AVL_in_order(h, n) ELSE BST_in_order(h, n)

\* The node holding value in the subtree of n (NULL when there is none)
RECURSIVE NodeWith(_, _, _)
NodeWith(h, n, value) ==
    IF n = NULL THEN NULL
    ELSE IF value < h[n].data THEN NodeWith(h, h[n].left, value)
    ELSE IF h[n].data < value THEN NodeWith(h, h[n].right, value)
    ELSE n

MaxOf(S) == CHOOSE x \in S : \A y \in S : y <= x

Mutated == last.op \in {"insert", "remove"} /\ last.ret

\* ------------------------------------------------------------------ claims
\* C1: in the AVL variant, after any sequence of insert and remove calls
\* every node has |height(left) - height(right)| <= 1 with the heights
\* recomputed from the structure, i.e. is_balanced() is true.
C1_AVLBalanced ==
    variant = "AVL" => (Balanced(heap, root) /\ is_balanced(heap, root)[1])

\* C1 witness: an AVL remove of a value that was not at the root left three
\* nodes under a new root, so the remove's unwind rotated at the root.
C1_Witness ==
    /\ variant = "AVL" /\ last.op = "remove" /\ last.ret
    /\ Cardinality(DOMAIN heap) = 3
    /\ root # last.pre.root
    /\ last.pre.heap[last.pre.root].data # last.arg

\* C2: in both variants the search-tree property holds at every node after
\* any sequence of insert and remove calls, and in_order() of a non-empty
\* tree is strictly ascending.
C2_SearchTree ==
    /\ SearchTree(heap, root)
    /\ root # NULL => StrictlyAscending(InOrder(heap, root))

\* C2 witness: a BST remove took the two-children case and left a tree of
\* three nodes.
C2_Witness ==
    /\ variant = "BST" /\ last.op = "remove" /\ last.ret
    /\ last.cases # <<>> /\ last.cases[1] = "two_children"
    /\ Cardinality(DOMAIN heap) = 3

\* C3: in the AVL variant every node's cached height equals
\* 1 + max(height(left), height(right)), empty = -1, after every insert and
\* remove, rotated nodes included.
C3_CachedHeight ==
    variant = "AVL" =>
        \A i \in NodesOf(heap, root) :
            /\ heap[i].height = 1 + Max2(height(heap, heap[i].left), height(heap, heap[i].right))
            /\ heap[i].height = TrueHeight(heap, i)

\* C3 witness: an AVL insert made the inserted value the root of a tree of
\* three nodes: a double rotation.
C3_Witness ==
    /\ variant = "AVL" /\ last.op = "insert" /\ last.ret
    /\ Cardinality(DOMAIN heap) = 3
    /\ heap[root].data = last.arg
    /\ heap[root].height = 1

\* C4: in both variants the tree is a set: contain(v) is true exactly when v
\* was inserted and not removed since; after insert(v) contain(v) is true,
\* after remove(v) it is false, and remove(v) changes the membership of no
\* other value.
C4_SetSemantics ==
    /\ \A v \in Values : Contain(heap, root, v) <=> v \in members
    /\ last.op = "contain" => (last.ret <=> last.arg \in members)
    /\ last.op = "insert" => Contain(heap, root, last.arg)
    /\ last.op = "remove" =>
          /\ ~Contain(heap, root, last.arg)
          /\ \A v \in Values \ {last.arg} :
                Contain(heap, root, v) <=> Contain(last.pre.heap, last.pre.root, v)

\* C4 witness: an AVL remove succeeded and three other values remain.
C4_Witness ==
    /\ variant = "AVL" /\ last.op = "remove" /\ last.ret
    /\ Cardinality(members) = 3

\* C5: in both variants insert(v) returns true iff v was absent before the
\* call; when v was present it returns false and the tree is unchanged:
\* same nodes, same shape, same values, same cached heights.
C5_InsertResult ==
    last.op = "insert" =>
        /\ last.ret <=> last.arg \notin last.pre.members
        /\ ~last.ret => (heap = last.pre.heap /\ root = last.pre.root)

\* C5 witness: an AVL insert of a value stored below the root of a tree of
\* four nodes returned false.
C5_Witness ==
    /\ variant = "AVL" /\ last.op = "insert" /\ ~last.ret
    /\ Cardinality(DOMAIN heap) = 4
    /\ heap[root].data # last.arg

\* C6: in both variants remove(v) returns true iff v was present before the
\* call; when v was absent it returns false, destroys nothing and leaves the
\* tree unchanged.
C6_RemoveResult ==
    last.op = "remove" =>
        /\ last.ret <=> last.arg \in last.pre.members
        /\ ~last.ret => (heap = last.pre.heap /\ root = last.pre.root /\ last.freed = {})

\* C6 witness: an AVL remove of an absent value from a tree of three nodes
\* returned false.
C6_Witness ==
    /\ variant = "AVL" /\ last.op = "remove" /\ ~last.ret
    /\ Cardinality(DOMAIN heap) = 3

\* C7: on an empty tree, in both variants, contain is false for every value
\* and in_order(), pre_order() and post_order() return an empty sequence
\* without an access through the empty root.
C7_EmptyTreeQueries ==
    root = NULL =>
        /\ \A v \in Values : ~Contain(heap, root, v)
        /\ last.op = "contain" => ~last.ret
        /\ last.op \in {"in_order", "pre_order", "post_order"} =>
              (~last.err /\ ~last.halted /\ last.out = <<>>)

\* C8: round trip, both variants: every remove of a value that was inserted
\* and not yet removed returns true, and once every inserted value has been
\* removed the tree is empty: null root, no node allocated, contain false.
C8_RoundTrip ==
    /\ (last.op = "remove" /\ last.arg \in last.pre.members) => last.ret
    /\ members = {} =>
          /\ root = NULL
          /\ DOMAIN heap = {}
          /\ \A v \in Values : ~Contain(heap, root, v)

\* C8 witness: the remove that emptied the tree destroyed the node at the
\* highest address, so every address had been in use before the removes.
C8_Witness ==
    /\ members = {} /\ last.op = "remove" /\ last.ret
    /\ last.freed = {MaxNodes}

\* C9 as stated: after insert 30, 20, 10, 25 and remove(30), the remove took
\* the two-children case and the root's value is 25; the tree is a search
\* tree and, in the AVL, balanced.
C9_Original ==
    scen = Len(Scenario) =>
        /\ last.cases # <<>> /\ last.cases[1] = "two_children"
        /\ root \in DOMAIN heap /\ heap[root].data = 25
        /\ SearchTree(heap, root)
        /\ variant = "AVL" => Balanced(heap, root)

\* C9 amended: after insert 30, 20, 10, 25 and remove(30), the remove took
\* the one-child case (30 has only a left child: it is the root of the BST
\* and the right child of the AVL's root), nothing was copied, the root's
\* value is 20 and in_order() is 10, 20, 25; the tree is a search tree and,
\* in the AVL, balanced.
C9_Scenario ==
    scen = Len(Scenario) =>
        /\ last.ret /\ last.cases = <<"left_only">>
        /\ Cardinality(last.freed) = 1
        /\ \A i \in last.freed : last.pre.heap[i].data = 30
        /\ root \in DOMAIN heap /\ heap[root].data = 20
        /\ InOrder(heap, root) = <<10, 20, 25>>
        /\ SearchTree(heap, root)
        /\ variant = "AVL" => (Balanced(heap, root) /\ root = last.pre.root)
        /\ variant = "BST" => last.freed = {last.pre.root}

\* C9 witness: the scenario has run to its end in the AVL.
C9_Witness == scen = Len(Scenario) /\ variant = "AVL" /\ last.op = "remove"

\* C10: in both variants, when remove(v) matches a node with two children,
\* the node's value becomes the maximum of its left subtree, the nested
\* remove returns true and takes the leaf or the left-only case, exactly one
\* node is destroyed, the node count drops by one and the stored values are
\* the previous ones minus v.
C10_TwoChildren ==
    (last.op = "remove" /\ last.cases # <<>> /\ last.cases[1] = "two_children") =>
        LET n == NodeWith(last.pre.heap, last.pre.root, last.arg)
        IN  /\ last.ret
            /\ Len(last.cases) = 2 /\ last.cases[2] \in {"leaf", "left_only"}
            /\ Cardinality(last.freed) = 1
            /\ Cardinality(DOMAIN heap) = Cardinality(DOMAIN last.pre.heap) - 1
            /\ ValuesOf(heap, root) = ValuesOf(last.pre.heap, last.pre.root) \ {last.arg}
            /\ n # NULL /\ n \in DOMAIN heap
            /\ heap[n].data = MaxOf(ValuesOf(last.pre.heap, last.pre.heap[n].left))

\* C10 witness: an AVL remove took the two-children case and its nested
\* remove the left-only case.
C10_Witness ==
    /\ variant = "AVL" /\ last.op = "remove"
    /\ last.cases = <<"two_children", "left_only">>

\* The addresses reachable from n through left and right; the walk stops at
\* an address that holds no allocated node.
RECURSIVE Reach(_, _)
Reach(h, n) ==
    IF n = NULL THEN {}
    ELSE IF n \notin DOMAIN h THEN {n}
    ELSE {n} \cup Reach(h, h[n].left) \cup Reach(h, h[n].right)

\* The number of owning pointers (root, left and right fields of allocated
\* nodes) that hold address n
Owners(h, r, n) ==
    (IF r = n THEN 1 ELSE 0)
    + Cardinality({i \in DOMAIN h : h[i].left = n})
    + Cardinality({i \in DOMAIN h : h[i].right = n})

\* The last remove destroyed a node through one of the one-child cases
OneChildRemoved ==
    /\ last.op = "remove" /\ last.cases # <<>>
    /\ last.cases[Len(last.cases)] \in {"left_only", "right_only"}

\* The single child, before the call, of the node at address d
OnlyChild(h, d) == IF h[d].left # NULL THEN h[d].left ELSE h[d].right

\* C11: in both variants a remove through a one-child case destroys only the
\* matched node, and its child's subtree stays allocated, node for node (in
\* the BST untouched, and held by the slot that held the removed node); after
\* any sequence of insert and remove calls no pointer reachable from root
\* leads to a destroyed node and every allocated node is owned by exactly
\* one pointer and reachable from root.
C11_Ownership ==
    /\ Reach(heap, root) \subseteq DOMAIN heap
    /\ DOMAIN heap \subseteq Reach(heap, root)
    /\ \A n \in DOMAIN heap : Owners(heap, root, n) = 1
    /\ OneChildRemoved =>
          /\ Cardinality(last.freed) = 1
          /\ \A d \in last.freed :
                LET c == OnlyChild(last.pre.heap, d)
                    sub == Reach(last.pre.heap, c)
                IN  /\ d \in DOMAIN last.pre.heap
                    /\ sub # {} /\ sub \subseteq DOMAIN heap
                    /\ \A i \in sub : heap[i].data = last.pre.heap[i].data
                    /\ variant = "BST" =>
                          /\ \A i \in sub : heap[i] = last.pre.heap[i]
                          /\ Owners(heap, root, c) = 1
                          /\ last.pre.root = d => root = c
                          /\ \A q \in DOMAIN heap :
                                /\ last.pre.heap[q].left = d => heap[q].left = c
                                /\ last.pre.heap[q].right = d => heap[q].right = c

\* C11 witness: a BST remove took the right-only case at a node whose child
\* had a subtree of three nodes.
C11_Witness ==
    /\ variant = "BST" /\ last.op = "remove" /\ last.cases = <<"right_only">>
    /\ Cardinality(DOMAIN heap) = 3
    /\ \A d \in last.freed :
          Cardinality(Reach(last.pre.heap, OnlyChild(last.pre.heap, d))) = 3

\* C12: in the AVL, during the unwind of any insert or remove, balance
\* dereferences no null pointer (the left child exists when bf > 1, the right
\* child when bf < -1, and in a double rotation the inner grandchild that
\* becomes the subtree's root), the balance factor it computes is within
\* [-2, 2], it rotates exactly when that factor is 2 or -2, and the node it
\* leaves in the slot has |bf| <= 1.
C12_BalanceSafe ==
    (variant = "AVL" /\ last.op \in {"insert", "remove"}) =>
        /\ ~last.err /\ ~last.halted
        /\ \A i \in 1..Len(last.bal) :
              /\ ~last.bal[i].null
              /\ last.bal[i].bf \in -2..2
              /\ last.bal[i].rot # "none" <=> Abs(last.bal[i].bf) = 2
              /\ Abs(last.bal[i].after) <= 1

\* C12 witness: in the unwind of an AVL remove, balance saw bf = -2 and made
\* a double rotation.
C12_Witness ==
    /\ variant = "AVL" /\ last.op = "remove" /\ last.ret
    /\ \E i \in 1..Len(last.bal) :
          last.bal[i].bf = -2 /\ last.bal[i].rot = "double"

====
